---- MODULE Spec2Model ----
(***************************************************************************)
(* Model of the two generators of the snowden-archive repository:          *)
(*   generate_file_table.py      the Markdown inventory generator          *)
(*   generate_local_index-hf.py  the HTML index generator                  *)
(* Strings are sequences of one-character strings, paths are sequences of  *)
(* segments.  A run of a generator is a short sequence of steps over a     *)
(* world made of the local tree (in the order the walk delivers it), the   *)
(* remote listing and the output files.                                    *)
(***************************************************************************)
EXTENDS Integers, Sequences, FiniteSets, TLC

VARIABLES
  walk,         \* the files of the working directory, in the order rglob delivers them
  remote,       \* what the remote listing call does: unknown until the first call
  disk,         \* the content of the output files
  prog,         \* the generator of the current run
  args,         \* its command line
  pc,           \* the position of the run
  runs,         \* the runs started
  io,           \* the scans, writes, mkdirs and remote calls of the current run
  scanned,      \* the files the walk of the current run delivered
  structure,    \* the grouped index of the current run
  report,       \* the summary the run printed
  pdf_entries,  \* main's pdf_entries of the index generator
  exit,         \* the exit status
  prevOut,      \* the output file as the run before left it
  arg,          \* the input of a function checked on its own
  res           \* its result

vars == <<walk, remote, disk, prog, args, pc, runs, io, scanned,
          structure, report, pdf_entries, exit, prevOut, arg, res>>

worldVars == <<walk, remote, disk>>

(***************************************************************************)
(* Bounds of the model.                                                    *)
(***************************************************************************)
MaxFiles == 3
MaxRuns == 2
MaxParts == 2
MaxNameLen == 4

(***************************************************************************)
(* Characters.  CharOrder lists the characters the model uses in code      *)
(* point order, so Ord is order-isomorphic to Python's ord().              *)
(***************************************************************************)
Digits == <<"0", "1", "2", "3", "4", "5", "6", "7", "8", "9">>
UpperLetters == <<"A", "B", "C", "D", "E", "F", "G", "H", "I", "J", "K", "L", "M",
                  "N", "O", "P", "Q", "R", "S", "T", "U", "V", "W", "X", "Y", "Z">>
LowerLetters == <<"a", "b", "c", "d", "e", "f", "g", "h", "i", "j", "k", "l", "m",
                  "n", "o", "p", "q", "r", "s", "t", "u", "v", "w", "x", "y", "z">>
CharOrder == <<" ", "-", ".", "/">> \o Digits \o UpperLetters \o <<"\\", "_">>
             \o LowerLetters \o <<"|">>

Range(s) == {s[i] : i \in 1..Len(s)}
IndexIn(s, c) == CHOOSE i \in 1..Len(s) : s[i] = c
OrdTable == [c \in Range(CharOrder) |-> IndexIn(CharOrder, c)]
Ord(c) == OrdTable[c]
DigitSet == Range(Digits)
UpperSet == Range(UpperLetters)
LowerSet == Range(LowerLetters)
IsDigit(c) == c \in DigitSet
IsUpper(c) == c \in UpperSet
IsLower(c) == c \in LowerSet
\* \w of Python's re: letters, digits and the underscore
IsWord(c) == IsDigit(c) \/ IsUpper(c) \/ IsLower(c) \/ c = "_"
DigitValue(c) == IndexIn(Digits, c) - 1
\* str.lower(), one character
LowerChar(c) == IF IsUpper(c) THEN LowerLetters[IndexIn(UpperLetters, c)] ELSE c
\* str.lower()
Lower(s) == [i \in 1..Len(s) |-> LowerChar(s[i])]

\* int(str) on a string of decimal digits
RECURSIVE IntOf(_)
IntOf(s) == IF s = <<>> THEN 0 ELSE 10 * IntOf(SubSeq(s, 1, Len(s) - 1)) + DigitValue(s[Len(s)])

\* str(int) for a non-negative integer
RECURSIVE StrOf(_)
StrOf(n) == IF n < 10 THEN <<Digits[n + 1]>> ELSE StrOf(n \div 10) \o <<Digits[(n % 10) + 1]>>

(***************************************************************************)
(* The year extractor: re.search(r"\b(19\d{2}|20\d{2})\b", part)           *)
(***************************************************************************)
None == -1
NoMatchSentinel == 999999

\* \b before position pos (1..Len+1): exactly one side is a word character
WordBoundary(s, pos) ==
  LET before == pos > 1 /\ IsWord(s[pos - 1])
      after == pos <= Len(s) /\ IsWord(s[pos])
  IN before # after

\* the pattern matched with its first character at position i
MatchAt(s, i) ==
  /\ i + 3 <= Len(s)
  /\ WordBoundary(s, i)
  /\ \/ s[i] = "1" /\ s[i + 1] = "9"
     \/ s[i] = "2" /\ s[i + 1] = "0"
  /\ IsDigit(s[i + 2])
  /\ IsDigit(s[i + 3])
  /\ WordBoundary(s, i + 4)

\* re.search: the leftmost start position of a match, 0 when there is none
RECURSIVE SearchFrom(_, _)
SearchFrom(s, i) ==
  IF i > Len(s) THEN 0
  ELSE IF MatchAt(s, i) THEN i
  ELSE SearchFrom(s, i + 1)

ReSearch(s) == SearchFrom(s, 1)
\* m.group(0)
Group0(s, i) == SubSeq(s, i, i + 3)

\* Faulty variant of extract_year_from_path: the parts scanned leaf to root
RECURSIVE ExtractLastYearFromPath(_)
ExtractLastYearFromPath(path_parts) ==
  IF path_parts = <<>> THEN None
  ELSE LET part == path_parts[Len(path_parts)]
           m == ReSearch(part)
       IN IF m # 0 THEN IntOf(Group0(part, m))
          ELSE ExtractLastYearFromPath(SubSeq(path_parts, 1, Len(path_parts) - 1))

\* generate_local_index-hf.py: extract_year_from_path
RECURSIVE extract_year_from_path(_)
extract_year_from_path(path_parts) ==
  IF path_parts = <<>> THEN None
  ELSE LET part == Head(path_parts)
           m == ReSearch(part)
       IN IF m # 0 THEN IntOf(Group0(part, m))
          ELSE extract_year_from_path(Tail(path_parts))

\* generate_file_table.py: extract_year
extract_year(part) ==
  LET m == ReSearch(part)
  IN IF m # 0 THEN IntOf(Group0(part, m)) ELSE NoMatchSentinel

\* generate_file_table.py: the year loop of group_files (lines 36-41)
RECURSIVE group_files_year(_)
group_files_year(parts) ==
  IF parts = <<>> THEN None
  ELSE LET y == extract_year(Head(parts))
       IN IF y # NoMatchSentinel THEN y ELSE group_files_year(Tail(parts))

(***************************************************************************)
(* Python containers.  A dict is a sequence of <<key, value>> pairs in     *)
(* insertion order; sorted() is a stable sort.                             *)
(***************************************************************************)
Keys(d) == [i \in 1..Len(d) |-> d[i][1]]
HasKey(d, k) == \E i \in 1..Len(d) : d[i][1] = k
Get(d, k) == d[CHOOSE i \in 1..Len(d) : d[i][1] = k][2]
\* d[k] = v
Put(d, k, v) ==
  IF HasKey(d, k) THEN [i \in 1..Len(d) |-> IF d[i][1] = k THEN <<k, v>> ELSE d[i]]
  ELSE Append(d, <<k, v>>)
\* d.setdefault(k, default)
SetDefault(d, k, default) == IF HasKey(d, k) THEN d ELSE Append(d, <<k, default>>)

\* sort keys are sequences of naturals, compared as Python compares sequences
RECURSIVE KeyLess(_, _)
KeyLess(a, b) ==
  IF b = <<>> THEN FALSE
  ELSE IF a = <<>> THEN TRUE
  ELSE IF a[1] # b[1] THEN a[1] < b[1]
  ELSE KeyLess(Tail(a), Tail(b))

\* the key of a str
KeyOfStr(s) == [i \in 1..Len(s) |-> Ord(s[i])]
\* the key of a PurePosixPath: its parts compared one by one, each as a str
\* (a part boundary sorts below every character)
RECURSIVE KeyOfParts(_)
KeyOfParts(p) ==
  IF p = <<>> THEN <<>>
  ELSE IF Len(p) = 1 THEN KeyOfStr(p[1])
  ELSE KeyOfStr(p[1]) \o <<0>> \o KeyOfParts(Tail(p))
KeyOfInt(n) == <<n>>

\* insert pair x = <<key, value>> after every pair whose key is not greater
RECURSIVE InsertPair(_, _)
InsertPair(x, s) ==
  IF s = <<>> THEN <<x>>
  ELSE IF KeyLess(x[1], s[1][1]) THEN <<x>> \o s
  ELSE <<s[1]>> \o InsertPair(x, Tail(s))

RECURSIVE SortPairs(_)
SortPairs(ps) ==
  IF ps = <<>> THEN <<>>
  ELSE InsertPair(ps[Len(ps)], SortPairs(SubSeq(ps, 1, Len(ps) - 1)))

Values(ps) == [i \in 1..Len(ps) |-> ps[i][2]]

\* sorted(strs)
SortedStrs(strs) == Values(SortPairs([i \in 1..Len(strs) |-> <<KeyOfStr(strs[i]), strs[i]>>]))
\* sorted(ints)
SortedInts(ns) == Values(SortPairs([i \in 1..Len(ns) |-> <<KeyOfInt(ns[i]), ns[i]>>]))

(***************************************************************************)
(* Strings of the programs and of the modelled world.                      *)
(***************************************************************************)
S_NoYearFolder == <<"N", "o", " ", "Y", "e", "a", "r", " ", "F", "o", "l", "d", "e", "r">>
S_VerticalBar == <<"V", "e", "r", "t", "i", "c", "a", "l", " ", "B", "a", "r">>
S_pdf == <<".", "p", "d", "f">>
S_dotfiles == <<".", "f", "i", "l", "e", "s">>
S_2010 == <<"2", "0", "1", "0">>
S_A == <<"A">>
TemplateFile == << <<"t", "e", "m", "p", "l", "a", "t", "e", "s", ".", "h", "t", "m", "l">> >>
InventoryFile == << <<"I", "N", "V", "E", "N", "T", "O", "R", "Y", ".", "m", "d">> >>

\* the files a local tree of the model may hold, each as its parts relative
\* to the working directory
LocalUniverse ==
  { <<S_A, S_2010, <<"x", ".", "p", "d", "f">> >>,
    <<S_A, S_2010, <<"X", ".", "p", "d", "f">> >>,
    <<S_A, <<"r", "e", "p", "-", "1", "9", "9", "9", ".", "p", "d", "f">> >>,
    <<S_A, <<"n", "|", "m", ".", "p", "d", "f">> >>,
    << <<"B">>, S_dotfiles, <<"q", ".", "p", "d", "f">> >>,
    << <<"b">>, S_2010, <<"w", ".", "p", "d", "f">> >>,
    TemplateFile }

\* the path strings the remote listing of the model may return
RemoteUniverse ==
  { <<"x", "/", "2", "0", "2", "0", "/", "A", ".", "P", "D", "F">>,
    <<"x", "/", "b", ".", "t", "x", "t">> }

(***************************************************************************)
(* pathlib and str helpers                                                 *)
(***************************************************************************)
\* PurePath.as_posix() of a relative path
RECURSIVE AsPosix(_)
AsPosix(parts) ==
  IF parts = <<>> THEN <<>>
  ELSE IF Len(parts) = 1 THEN parts[1]
  ELSE parts[1] \o <<"/">> \o AsPosix(Tail(parts))

\* str.split("/"), empty pieces dropped as Path(path).parts drops them
RECURSIVE SplitFrom(_, _, _)
SplitFrom(s, i, cur) ==
  IF i > Len(s) THEN (IF cur = <<>> THEN <<>> ELSE <<cur>>)
  ELSE IF s[i] = "/" THEN (IF cur = <<>> THEN <<>> ELSE <<cur>>) \o SplitFrom(s, i + 1, <<>>)
  ELSE SplitFrom(s, i + 1, Append(cur, s[i]))
\* Path(path).parts
PathParts(s) == SplitFrom(s, 1, <<>>)
\* Path(path).name
PathName(s) == LET p == PathParts(s) IN IF p = <<>> THEN <<>> ELSE p[Len(p)]

\* path.split("/", 1)[0]
RECURSIVE UpToSlash(_)
UpToSlash(s) ==
  IF s = <<>> \/ s[1] = "/" THEN <<>> ELSE <<s[1]>> \o UpToSlash(Tail(s))

\* str.endswith
EndsWith(s, suffix) ==
  Len(s) >= Len(suffix) /\ SubSeq(s, Len(s) - Len(suffix) + 1, Len(s)) = suffix
\* str.startswith
StartsWith(s, prefix) == Len(s) >= Len(prefix) /\ SubSeq(s, 1, Len(prefix)) = prefix

\* PurePath.suffix: from the last dot of the name, unless the dot is first or last
Suffix(name) ==
  LET dots == {i \in 1..Len(name) : name[i] = "."}
  IN IF dots = {} THEN <<>>
     ELSE LET i == CHOOSE k \in dots : \A j \in dots : j <= k
          IN IF 1 < i /\ i < Len(name) THEN SubSeq(name, i, Len(name)) ELSE <<>>

\* urllib.parse.quote(s, safe="/") (and safe=":/"): one character
QuoteChar(c) ==
  IF IsDigit(c) \/ IsUpper(c) \/ IsLower(c) \/ c \in {"_", ".", "-", "/"} THEN <<c>>
  ELSE IF c = " " THEN <<"%", "2", "0">>
  ELSE IF c = "\\" THEN <<"%", "5", "C">>
  ELSE <<"%", "7", "C">>
RECURSIVE Quote(_)
Quote(s) == IF s = <<>> THEN <<>> ELSE QuoteChar(s[1]) \o Quote(Tail(s))

\* str.replace(old, new) for a one-character old: every occurrence, left to right
RECURSIVE ReplaceChar(_, _, _)
ReplaceChar(s, old, new) ==
  IF s = <<>> THEN <<>>
  ELSE (IF s[1] = old THEN new ELSE <<s[1]>>) \o ReplaceChar(Tail(s), old, new)

\* str.replace(old, new, 1) for a one-character old: the first occurrence only
RECURSIVE ReplaceFirstChar(_, _, _)
ReplaceFirstChar(s, old, new) ==
  IF s = <<>> THEN <<>>
  ELSE IF s[1] = old THEN new \o Tail(s)
  ELSE <<s[1]>> \o ReplaceFirstChar(Tail(s), old, new)

\* str.replace(old, new) for any non-empty old: non-overlapping, left to right
RECURSIVE Replace(_, _, _)
Replace(s, old, new) ==
  IF s = <<>> THEN <<>>
  ELSE IF StartsWith(s, old) THEN new \o Replace(SubSeq(s, Len(old) + 1, Len(s)), old, new)
  ELSE <<s[1]>> \o Replace(Tail(s), old, new)

(***************************************************************************)
(* generate_file_table.py                                                  *)
(***************************************************************************)
\* fp.name
Name(fp) == fp[Len(fp)]

\* main, lines 142-147: the --ext values normalised to lower case with a dot
NormalizeExt(ext) == Lower(IF StartsWith(Lower(ext), <<".">>) THEN ext ELSE <<".">> \o ext)
ExtensionsSet(extensions) == {NormalizeExt(e) : e \in extensions}

\* group_files, one iteration of the loop over rglob("*") (every element of
\* the walk is a regular file)
GroupStep(st, file_path, extensions) ==
  IF extensions # {} /\ Lower(Suffix(Name(file_path))) \notin extensions THEN st
  ELSE IF file_path = <<>> THEN st
  ELSE LET top_level == file_path[1]
           year == group_files_year(file_path)
           st1 == SetDefault(st, top_level, <<>>)
           inner == SetDefault(Get(st1, top_level), year, <<>>)
       IN Put(st1, top_level, Put(inner, year, Append(Get(inner, year), file_path)))

RECURSIVE GroupFrom(_, _, _)
GroupFrom(st, files, extensions) ==
  IF files = <<>> THEN st
  ELSE GroupFrom(GroupStep(st, Head(files), extensions), Tail(files), extensions)

\* group_files
group_files(files, extensions) == GroupFrom(<<>>, files, extensions)

\* Faulty variant of EscapeName: only the first bar is escaped
EscapeFirstOnly(name) == ReplaceFirstChar(name, "|", <<"\\", "|">>)
\* generate_markdown_inventory, line 93: fp.name.replace("|", "\\|")
EscapeName(name) == ReplaceChar(name, "|", <<"\\", "|">>)

\* github_link: the link text and the percent-encoded target
github_link(rel_path) == <<AsPosix(rel_path), Quote(AsPosix(rel_path))>>

\* generate_markdown_inventory, lines 91-95: one table row
MdRow(fp) == <<"row", EscapeName(Name(fp))>> \o github_link(fp)

\* Faulty variant of SortedFiles: the files in the order they were appended
WalkOrderFiles(files) == files
\* sorted(year_groups[year], key=lambda p: p.relative_to(root_dir))
SortedFiles(files) ==
  Values(SortPairs([i \in 1..Len(files) |-> <<KeyOfParts(files[i]), files[i]>>]))

\* Faulty variant of MdYears: None before the numeric years
MdYearsNoneFirst(year_groups) ==
  (IF HasKey(year_groups, None) THEN <<None>> ELSE <<>>)
  \o SortedInts(SelectSeq(Keys(year_groups), LAMBDA y : y # None))
\* lines 75-77: the numeric years ascending, then None
MdYears(year_groups) ==
  SortedInts(SelectSeq(Keys(year_groups), LAMBDA y : y # None))
  \o (IF HasKey(year_groups, None) THEN <<None>> ELSE <<>>)

\* lines 79-97: the lines of one year of one directory
MdYearLines(year_groups, year) ==
  LET files == SortedFiles(Get(year_groups, year))
      header == IF year = None THEN S_NoYearFolder ELSE StrOf(year)
  IN IF files = <<>> THEN <<>>
     ELSE << <<"h4", header>>, <<"th">>, <<"sep">> >>
          \o [i \in 1..Len(files) |-> MdRow(files[i])]
          \o << <<"blank">> >>

RECURSIVE MdYearsLines(_, _)
MdYearsLines(year_groups, years) ==
  IF years = <<>> THEN <<>>
  ELSE MdYearLines(year_groups, Head(years)) \o MdYearsLines(year_groups, Tail(years))

\* line 71: sorted(structure.keys())
MdDirs(st) == SortedStrs(Keys(st))

RECURSIVE MdDirsLines(_, _)
MdDirsLines(st, dirs) ==
  IF dirs = <<>> THEN <<>>
  ELSE << <<"h3", Head(dirs)>> >>
       \o MdYearsLines(Get(st, Head(dirs)), MdYears(Get(st, Head(dirs))))
       \o << <<"hr">> >>
       \o MdDirsLines(st, Tail(dirs))

\* lines 64-101: the content written
MdContent(st) ==
  << <<"title">>, <<"note">>, <<"h2">> >> \o MdDirsLines(st, MdDirs(st))

\* line 81: total += len(files), over every directory and year
RECURSIVE SumLens(_)
SumLens(year_groups) ==
  IF year_groups = <<>> THEN 0 ELSE Len(Head(year_groups)[2]) + SumLens(Tail(year_groups))
RECURSIVE MdTotal(_)
MdTotal(st) == IF st = <<>> THEN 0 ELSE SumLens(Head(st)[2]) + MdTotal(Tail(st))

\* Faulty variant of MdReport: the directories counted as the total
MdReportBuckets(st) == <<Len(st), Len(st)>>
\* line 108: the summary, total files and len(structure)
MdReport(st) == <<MdTotal(st), Len(st)>>

(***************************************************************************)
(* generate_local_index-hf.py.  An entry {"path", "name", "year"} is the   *)
(* tuple <<path, name, year>>.                                             *)
(***************************************************************************)
EntryOfLocal(rel) == <<AsPosix(rel), Name(rel), extract_year_from_path(rel)>>

\* scan_local_pdfs: rglob("*.pdf") without the files under a .files folder
\* (every element of the walk is a regular file)
RECURSIVE scan_local_pdfs(_)
scan_local_pdfs(files) ==
  IF files = <<>> THEN <<>>
  ELSE LET p == Head(files)
       IN (IF EndsWith(Name(p), S_pdf) /\ S_dotfiles \notin Range(p)
           THEN <<EntryOfLocal(p)>> ELSE <<>>)
          \o scan_local_pdfs(Tail(files))

\* Faulty variant of PdfPaths: no lower(), so .PDF paths are lost
PdfPathsCaseSensitive(files) == SelectSeq(files, LAMBDA f : EndsWith(f, S_pdf))
\* get_pdf_files_from_hf, line 42: the .pdf paths of the listing
PdfPaths(files) == SelectSeq(files, LAMBDA f : EndsWith(Lower(f), S_pdf))

\* get_pdf_files_from_hf: the listing's .pdf paths, [] when the call raises
get_pdf_files_from_hf(outcome) ==
  IF outcome[1] = "raise" THEN <<>> ELSE PdfPaths(outcome[2])

\* main, lines 150-158: the entries of the remote paths
HfEntries(hf_files) ==
  [i \in 1..Len(hf_files) |->
     <<hf_files[i], PathName(hf_files[i]), extract_year_from_path(PathParts(hf_files[i]))>>]

\* generate_html, line 84: f["year"] if f["year"] else "no-year"; the key
\* "no-year" is modelled by None
YearKey(year) == IF year = None \/ year = 0 THEN None ELSE year

\* Faulty variant of HtmlGroupStep: setdefault without the append, so a
\* bucket keeps its first entry only
HtmlGroupStepKeepFirst(grouped, f) ==
  LET top_dir == UpToSlash(f[1])
      year_key == YearKey(f[3])
      g1 == SetDefault(grouped, top_dir, <<>>)
      inner == SetDefault(Get(g1, top_dir), year_key, <<f>>)
  IN Put(g1, top_dir, inner)
\* generate_html, lines 81-85: one iteration of the grouping loop
HtmlGroupStep(grouped, f) ==
  LET top_dir == UpToSlash(f[1])
      year_key == YearKey(f[3])
      g1 == SetDefault(grouped, top_dir, <<>>)
      inner == SetDefault(Get(g1, top_dir), year_key, <<>>)
  IN Put(g1, top_dir, Put(inner, year_key, Append(Get(inner, year_key), f)))

RECURSIVE HtmlGroupFrom(_, _)
HtmlGroupFrom(grouped, entries) ==
  IF entries = <<>> THEN grouped
  ELSE HtmlGroupFrom(HtmlGroupStep(grouped, Head(entries)), Tail(entries))

\* generate_html, lines 80-85
HtmlGrouped(entries) == HtmlGroupFrom(<<>>, entries)

\* sorted(flist, key=lambda x: x["path"].lower())
HtmlSortedFiles(flist) ==
  Values(SortPairs([i \in 1..Len(flist) |-> <<KeyOfStr(Lower(flist[i][1])), flist[i]>>]))

\* lines 93-96: year_map, display name -> sorted files
RECURSIVE YearMapFrom(_, _)
YearMapFrom(year_map, items) ==
  IF items = <<>> THEN year_map
  ELSE LET y_key == Head(items)[1]
           display == IF y_key = None THEN S_NoYearFolder ELSE StrOf(y_key)
       IN YearMapFrom(Put(year_map, display, HtmlSortedFiles(Head(items)[2])), Tail(items))
YearMap(year_groups) == YearMapFrom(<<>>, year_groups)

\* lines 98-103: the numeric display names by int, then "No Year Folder"
HtmlSortedYears(year_map) ==
  LET numeric == SelectSeq(Keys(year_map), LAMBDA y : y # S_NoYearFolder)
  IN Values(SortPairs([i \in 1..Len(numeric) |-> <<KeyOfInt(IntOf(numeric[i])), numeric[i]>>]))
     \o (IF HasKey(year_map, S_NoYearFolder) THEN <<S_NoYearFolder>> ELSE <<>>)

\* lines 111-116: one table row: the link, the displayed name, the path
HtmlRow(f) == <<"tr", Quote(f[1]), Replace(f[2], <<"|">>, S_VerticalBar), f[1]>>

\* Faulty variant of HtmlYearBlock: the badge counts one file too many
HtmlYearBlockBadgeOff(year_name, files) ==
  << <<"year", year_name, StrOf(Len(files) + 1)>> >>
  \o [i \in 1..Len(files) |-> HtmlRow(files[i])]
  \o << <<"/year">> >>
\* lines 105-118: one year block
HtmlYearBlock(year_name, files) ==
  << <<"year", year_name, StrOf(Len(files))>> >>
  \o [i \in 1..Len(files) |-> HtmlRow(files[i])]
  \o << <<"/year">> >>

RECURSIVE HtmlYearBlocks(_, _)
HtmlYearBlocks(year_map, years) ==
  IF years = <<>> THEN <<>>
  ELSE HtmlYearBlock(Head(years), Get(year_map, Head(years)))
       \o HtmlYearBlocks(year_map, Tail(years))

RECURSIVE HtmlDirBlocks(_, _)
HtmlDirBlocks(grouped, dirs) ==
  IF dirs = <<>> THEN <<>>
  ELSE LET year_map == YearMap(Get(grouped, Head(dirs)))
       IN << <<"dir", Head(dirs)>> >>
          \o HtmlYearBlocks(year_map, HtmlSortedYears(year_map))
          \o << <<"/dir">> >>
          \o HtmlDirBlocks(grouped, Tail(dirs))

\* lines 87-120: the fragment injected into the template
HtmlContent(grouped) == HtmlDirBlocks(grouped, SortedStrs(Keys(grouped)))

\* Faulty variant of TemplateExists: the check always passes
TemplateAssumed(files) == TRUE
\* line 124: template_path.exists()
TemplateExists(files) == TemplateFile \in Range(files)

\* lines 128-130: the template with {TOTAL_FILES} and the fragment substituted
FinalHtml(content, total_files) == << <<"total", StrOf(total_files)>> >> \o content

(***************************************************************************)
(* The world and the runs.                                                 *)
(***************************************************************************)
Absent == <<>>
IndexOutput == "index_local.html"
DiskFiles == {"INVENTORY.md", "../INVENTORY.md", IndexOutput}

\* the sequences without repetition over S, of length at most n
InjectiveSeqs(S, n) ==
  {q \in UNION {[1..k -> S] : k \in 0..n} : \A i, j \in 1..Len(q) : i # j => q[i] # q[j]}

\* what the remote listing call can do: raise, or return a list of paths
RemoteOutcomes ==
  {<<"raise">>} \cup {<<"ok", l>> : l \in InjectiveSeqs(RemoteUniverse, Cardinality(RemoteUniverse))}

\* the command lines of the inventory generator: <<directory, --ext values, --output>>
InvArgs ==
  {".", "missing"}
  \X { {}, {<<"P", "D", "F">>} }
  \X {"INVENTORY.md", "../INVENTORY.md"}
\* the command lines of the index generator: <<--hf, --fallback-local>>
IdxArgs == BOOLEAN \X BOOLEAN

NoIo == [scans |-> 0, writes |-> 0, mkdirs |-> 0, hf |-> 0]

\* seq with x inserted after its first pos elements
InsertAt(q, pos, x) == SubSeq(q, 1, pos) \o <<x>> \o SubSeq(q, pos + 1, Len(q))

\* the file the current generator writes
OutFile == IF prog = "inventory" THEN args[3] ELSE IndexOutput

RunInit ==
  /\ remote = <<"unknown">>
  /\ prog = "none"
  /\ args = <<>>
  /\ runs = 0
  /\ io = NoIo
  /\ scanned = <<>>
  /\ structure = <<>>
  /\ report = <<>>
  /\ pdf_entries = <<>>
  /\ exit = 0
  /\ prevOut = Absent

Init ==
  /\ walk \in InjectiveSeqs(LocalUniverse, MaxFiles)
  /\ disk = [f \in DiskFiles |-> Absent]
  /\ pc = "idle"
  /\ RunInit
  /\ arg = <<>>
  /\ res = <<>>

\* a run starts: the first with any command line, a later one with the same
\* command line on the world as the run before left it; prevOut keeps what
\* the run before left in the output file
StartRun(p, a) ==
  /\ runs < MaxRuns
  /\ \/ pc = "idle" /\ prevOut' = Absent
     \/ pc = "done" /\ prog = p /\ args = a /\ prevOut' = disk[OutFile]
  /\ prog' = p
  /\ args' = a
  /\ runs' = runs + 1
  /\ io' = NoIo
  /\ scanned' = <<>>
  /\ structure' = <<>>
  /\ pdf_entries' = <<>>
  /\ exit' = 0

\* generate_file_table.py main, lines 135-151
InvMain ==
  \E a \in InvArgs :
    /\ StartRun("inventory", a)
    /\ IF a[1] = "."
       THEN pc' = "generate" /\ report' = <<>>
       ELSE pc' = "done" /\ report' = <<"error">>
    /\ UNCHANGED <<walk, remote, disk, arg, res>>

\* generate_markdown_inventory (called at line 153), group_files included
GenerateMarkdownInventory ==
  /\ pc = "generate"
  /\ LET st == group_files(walk, ExtensionsSet(args[2]))
     IN /\ structure' = st
        /\ scanned' = walk
        /\ disk' = [disk EXCEPT ![args[3]] = MdContent(st)]
        /\ report' = <<"success">> \o MdReport(st)
  /\ io' = [io EXCEPT !.scans = @ + 1, !.mkdirs = @ + 1, !.writes = @ + 1]
  /\ IF args[3] = "INVENTORY.md" /\ InventoryFile \notin Range(walk)
     THEN \E pos \in 0..Len(walk) : walk' = InsertAt(walk, pos, InventoryFile)
     ELSE walk' = walk
  /\ pc' = "done"
  /\ UNCHANGED <<remote, prog, args, runs, pdf_entries, exit, prevOut, arg, res>>

\* generate_local_index-hf.py main, lines 139-146 and 166
IdxMain ==
  \E a \in IdxArgs :
    /\ StartRun("index", a)
    /\ pc' = IF a[1] THEN "hf" ELSE "scan"
    /\ report' = <<>>
    /\ UNCHANGED <<walk, remote, disk, arg, res>>

\* main, lines 147-165, with the call of get_pdf_files_from_hf; the listing
\* is fixed by the first call
GetPdfFilesFromHf ==
  /\ pc = "hf"
  /\ \E outcome \in RemoteOutcomes :
       /\ remote[1] = "unknown" \/ remote = outcome
       /\ remote' = outcome
       /\ LET hf_files == get_pdf_files_from_hf(outcome)
          IN IF hf_files # <<>>
             THEN pdf_entries' = HfEntries(hf_files) /\ pc' = "check" /\ exit' = 0
             ELSE IF args[2]
             THEN pdf_entries' = <<>> /\ pc' = "scan" /\ exit' = 0
             ELSE pdf_entries' = <<>> /\ pc' = "done" /\ exit' = 1
  /\ io' = [io EXCEPT !.hf = @ + 1]
  /\ UNCHANGED <<walk, disk, prog, args, runs, scanned, structure, report, prevOut, arg, res>>

\* main, lines 162 and 167: pdf_entries = scan_local_pdfs()
ScanLocalPdfs ==
  /\ pc = "scan"
  /\ pdf_entries' = scan_local_pdfs(walk)
  /\ scanned' = walk
  /\ io' = [io EXCEPT !.scans = @ + 1]
  /\ pc' = "check"
  /\ UNCHANGED <<walk, remote, disk, prog, args, runs, structure, report, exit, prevOut, arg, res>>

\* main, lines 169-173, with the call of generate_html(pdf_entries,
\* len(pdf_entries))
GenerateHtml ==
  /\ pc = "check"
  /\ IF pdf_entries = <<>>
     THEN exit' = 1 /\ UNCHANGED <<disk, io, report, structure>>
     ELSE LET grouped == HtmlGrouped(pdf_entries)
              content == HtmlContent(grouped)
          IN /\ structure' = grouped
             /\ IF ~TemplateExists(walk)
                THEN exit' = 1 /\ UNCHANGED <<disk, io, report>>
                ELSE /\ disk' = [disk EXCEPT
                                   ![IndexOutput] = FinalHtml(content, Len(pdf_entries))]
                     /\ io' = [io EXCEPT !.writes = @ + 1]
                     /\ report' = <<"success", Len(pdf_entries)>>
                     /\ exit' = 0
  /\ pc' = "done"
  /\ UNCHANGED <<walk, remote, prog, args, runs, scanned, pdf_entries, prevOut, arg, res>>

Next ==
  \/ InvMain
  \/ GenerateMarkdownInventory
  \/ IdxMain
  \/ GetPdfFilesFromHf
  \/ ScanLocalPdfs
  \/ GenerateHtml

Spec == Init /\ [][Next]_vars

(***************************************************************************)
(* The year extractor on its own: a path drawn from segments that cover    *)
(* the cases of the pattern.                                               *)
(***************************************************************************)
YearSegments ==
  { <<"d", "o", "c", "s">>,
    <<"2", "0", "1", "3">>,
    <<"x", "2", "0", "1", "3">>,
    <<"2", "0", "1", "3", "x">>,
    <<"2", "0", "1", "3", "-", "r">>,
    <<"r", "_", "2", "0", "1", "3">>,
    <<"1", "8", "9", "9">>,
    <<"2", "1", "0", "0">>,
    <<"1", "2", "0", "1", "3">>,
    <<"2", "0", "1", "3", "4">>,
    <<"1", "9", "9", "9", "-", "2", "0", "0", "1">>,
    <<"1", "8", "9", "9", ".", "2", "0", "9", "9">>,
    <<"a", ".", "1", "9", "0", "0">>,
    <<"2", "0", "1">> }

PureInit ==
  /\ walk = <<>>
  /\ disk = [f \in DiskFiles |-> Absent]
  /\ RunInit
  /\ res = <<>>

InitYear ==
  /\ arg \in UNION {[1..k -> YearSegments] : k \in 0..MaxParts}
  /\ pc = "path"
  /\ PureInit

\* extract_year_from_path(arg)
ExtractYearFromPath ==
  /\ pc = "path"
  /\ res' = <<extract_year_from_path(arg)>>
  /\ pc' = "index_year"
  /\ UNCHANGED <<worldVars, prog, args, runs, io, scanned, structure, report,
                 pdf_entries, exit, prevOut, arg>>

\* the year loop of group_files on arg
GroupFilesYear ==
  /\ pc = "path"
  /\ res' = <<group_files_year(arg)>>
  /\ pc' = "inventory_year"
  /\ UNCHANGED <<worldVars, prog, args, runs, io, scanned, structure, report,
                 pdf_entries, exit, prevOut, arg>>

NextYear == ExtractYearFromPath \/ GroupFilesYear

SpecYear == InitYear /\ [][NextYear]_vars

(***************************************************************************)
(* The Markdown table row of one file name on its own.                     *)
(***************************************************************************)
NameChars == {"a", "|", "\\"}

InitEscape ==
  /\ arg \in UNION {[1..k -> NameChars] : k \in 1..MaxNameLen}
  /\ pc = "name"
  /\ PureInit

\* lines 91-95 for a file called arg in the root directory
RenderRow ==
  /\ pc = "name"
  /\ res' = MdRow(<<arg>>)
  /\ pc' = "row"
  /\ UNCHANGED <<worldVars, prog, args, runs, io, scanned, structure, report,
                 pdf_entries, exit, prevOut, arg>>

NextEscape == RenderRow

SpecEscape == InitEscape /\ [][NextEscape]_vars

(***************************************************************************)
(* The claims.                                                             *)
(***************************************************************************)
\* a 4-digit token in [1900,2099] that starts at position i of seg and is
\* delimited by word boundaries
IsYearToken(seg, i) ==
  /\ i + 3 <= Len(seg)
  /\ \A k \in i..(i + 3) : IsDigit(seg[k])
  /\ IntOf(SubSeq(seg, i, i + 3)) \in 1900..2099
  /\ i = 1 \/ ~IsWord(seg[i - 1])
  /\ i + 4 > Len(seg) \/ ~IsWord(seg[i + 4])
TokenStarts(seg) == {i \in 1..Len(seg) : IsYearToken(seg, i)}
Least(S) == CHOOSE x \in S : \A y \in S : x <= y
FirstTokenValue(seg) == IntOf(SubSeq(seg, Least(TokenStarts(seg)), Least(TokenStarts(seg)) + 3))
SegmentsWithToken(path) == {k \in 1..Len(path) : TokenStarts(path[k]) # {}}

\* C1: both year extractors return the first year token of the first
\* segment (root to leaf) that holds one, as an integer, and return None
\* exactly when no segment holds a year token.
C1_FirstYearToken ==
  pc \in {"index_year", "inventory_year"} =>
    /\ (res[1] = None) <=> (SegmentsWithToken(arg) = {})
    /\ SegmentsWithToken(arg) # {} =>
         res[1] = FirstTokenValue(arg[Least(SegmentsWithToken(arg))])

\* a path whose two segments hold different years: the first one is returned
C1_Witness ==
  /\ pc = "index_year"
  /\ Len(arg) = 2
  /\ SegmentsWithToken(arg) = {1, 2}
  /\ Cardinality(TokenStarts(arg[1])) = 2
  /\ FirstTokenValue(arg[1]) # FirstTokenValue(arg[2])
  /\ res[1] = 1999

\* the number of bars of name before position i
BarsBefore(name, i) == Cardinality({j \in 1..(i - 1) : name[j] = "|"})
\* the reverse of the escape: each "\|" replaced by "|"
Unescape(cell) == Replace(cell, <<"\\", "|">>, <<"|">>)

\* C9: the filename cell of a Markdown row is the filename with each "|"
\* replaced by "\|"; reversing the escape gives the filename back; a
\* filename without "|" is written unchanged.
C9_EscapeRoundTrip ==
  pc = "row" =>
    LET cell == res[2]
    IN /\ Len(cell) = Len(arg) + BarsBefore(arg, Len(arg) + 1)
       /\ \A i \in 1..Len(arg) :
            IF arg[i] = "|"
            THEN /\ cell[i + BarsBefore(arg, i)] = "\\"
                 /\ cell[i + BarsBefore(arg, i) + 1] = "|"
            ELSE cell[i + BarsBefore(arg, i)] = arg[i]
       /\ Unescape(cell) = arg
       /\ "|" \notin Range(arg) => cell = arg

\* a filename with a backslash before a bar and a second bar
C9_Witness ==
  /\ pc = "row"
  /\ arg = <<"a", "\\", "|", "|">>
  /\ res[2] = <<"a", "\\", "\\", "|", "\\", "|">>

\* the year of a path as C1 states it
FirstYear(path) ==
  IF SegmentsWithToken(path) = {} THEN None
  ELSE FirstTokenValue(path[Least(SegmentsWithToken(path))])

\* the file passes the extension filter of the command line
PassesFilter(f, rawExts) ==
  \/ rawExts = {}
  \/ \E e \in rawExts :
       EndsWith(Lower(Name(f)), IF Lower(e)[1] = "." THEN Lower(e) ELSE <<".">> \o Lower(e))

\* the places <<i, j, k>> of a grouped index: file k of year j of directory i
Places(st) ==
  UNION {UNION {{<<i, j, k>> : k \in 1..Len(st[i][2][j][2])} : j \in 1..Len(st[i][2])}
           : i \in 1..Len(st)}
FileAt(st, t) == st[t[1]][2][t[2]][2][t[3]]
DirAt(st, t) == st[t[1]][1]
YearAt(st, t) == st[t[1]][2][t[2]][1]

\* st partitions inputs into (directory, year) buckets keyed by the functions
\* dirOf and yearOf
IsPartition(st, inputs, dirOf, yearOf) ==
  /\ \A i, j \in 1..Len(st) : i # j => st[i][1] # st[j][1]
  /\ \A i \in 1..Len(st) : \A j, k \in 1..Len(st[i][2]) :
       j # k => st[i][2][j][1] # st[i][2][k][1]
  /\ LET places == Places(st)
     IN /\ \A t \in places : FileAt(st, t) \in inputs
        /\ \A f \in inputs :
             /\ Cardinality({t \in places : FileAt(st, t) = f}) = 1
             /\ \A t \in places :
                  FileAt(st, t) = f => DirAt(st, t) = dirOf[f] /\ YearAt(st, t) = yearOf[f]

EntryDir(e) == PathParts(e[1])[1]
EntryYear(e) == FirstYear(PathParts(e[1]))

\* C2: after grouping, every input file is in exactly one (top-level
\* directory, year) bucket, once; no bucket holds a file that is not an
\* input; the bucket's directory is the file's first path segment and its
\* year is the file's extracted year.
C2_GroupingIsPartition ==
  /\ (prog = "inventory" /\ pc = "done" /\ args[1] = ".") =>
       LET inputs == {f \in Range(scanned) : PassesFilter(f, args[2])}
       IN IsPartition(structure, inputs,
                      [f \in inputs |-> f[1]], [f \in inputs |-> FirstYear(f)])
  /\ (prog = "index" /\ pc = "done" /\ pdf_entries # <<>>) =>
       IsPartition(structure, Range(pdf_entries),
                   [e \in Range(pdf_entries) |-> EntryDir(e)],
                   [e \in Range(pdf_entries) |-> EntryYear(e)])

\* an index run that grouped two entries into one bucket
C2_Witness ==
  /\ prog = "index"
  /\ pc = "done"
  /\ Len(pdf_entries) = 2
  /\ \E t \in Places(structure) : t[3] = 2

\* the .pdf paths of the remote listing, None of them when the call raised
RemotePdfs ==
  IF remote[1] # "ok" THEN <<>>
  ELSE SelectSeq(remote[2], LAMBDA f : Len(f) >= 4 /\ Lower(SubSeq(f, Len(f) - 3, Len(f))) = S_pdf)
\* the paths of the local scan: the .pdf files outside .files folders
LocalPdfPaths ==
  LET pdfs == SelectSeq(walk, LAMBDA f : EndsWith(Name(f), S_pdf)
                                         /\ \A k \in 1..Len(f) : f[k] # S_dotfiles)
  IN [i \in 1..Len(pdfs) |-> AsPosix(pdfs[i])]
EntryPaths == [i \in 1..Len(pdf_entries) |-> pdf_entries[i][1]]
\* index_local.html was not written by the current run
IndexUnwritten == io.writes = 0 /\ disk[IndexOutput] = prevOut

\* C3: with --hf, a remote call that raises or yields no .pdf path ends the
\* run with non-zero status and no index written when --fallback-local is
\* absent, and makes the entries those of the local scan when it is given;
\* a remote listing with a .pdf path makes the entries the remote .pdf paths
\* without a local scan.  The remote call is made at most once per run and
\* never without --hf.
C3_RemoteFallback ==
  prog = "index" =>
    /\ io.hf <= 1
    /\ ~args[1] => io.hf = 0
    /\ (args[1] /\ pc # "hf") =>
         /\ io.hf = 1
         /\ (RemotePdfs = <<>> /\ ~args[2]) =>
              pc = "done" /\ exit = 1 /\ IndexUnwritten /\ io.scans = 0
         /\ (RemotePdfs = <<>> /\ args[2] /\ pc \in {"check", "done"}) =>
              io.scans = 1 /\ EntryPaths = LocalPdfPaths
         /\ RemotePdfs # <<>> =>
              io.scans = 0 /\ EntryPaths = RemotePdfs /\ pc \in {"check", "done"}

\* the remote call raised, the local scan took over and the index was written
C3_Witness ==
  /\ prog = "index"
  /\ pc = "done"
  /\ args = <<TRUE, TRUE>>
  /\ remote[1] = "raise"
  /\ io.scans = 1
  /\ Len(pdf_entries) = 2
  /\ io.writes = 1

\* C4: index_local.html is written only if the sources yielded an entry and
\* templates.html exists; with no entry or no template the run ends with
\* non-zero status and index_local.html is left as it was.
C4_IndexWrittenOnlyWithEntriesAndTemplate ==
  prog = "index" =>
    /\ pc # "done" => IndexUnwritten
    /\ pc = "done" =>
         /\ io.writes > 0 => (pdf_entries # <<>> /\ TemplateFile \in Range(walk))
         /\ (pdf_entries = <<>> \/ TemplateFile \notin Range(walk)) =>
              exit = 1 /\ IndexUnwritten
         /\ (pdf_entries # <<>> /\ TemplateFile \in Range(walk)) =>
              exit = 0 /\ io.writes = 1 /\ disk[IndexOutput] # Absent

\* entries were found but the template is absent: the run failed, no index
C4_Witness ==
  /\ prog = "index"
  /\ pc = "done"
  /\ pdf_entries # <<>>
  /\ TemplateFile \notin Range(walk)
  /\ exit = 1
  /\ disk[IndexOutput] = Absent

\* the lines of a written document
IsDirLine(l) == l[1] \in {"h3", "dir"}
IsYearLine(l) == l[1] \in {"h4", "year"}
IsRowLine(l) == l[1] \in {"row", "tr"}
DirLines(doc) == {i \in 1..Len(doc) : IsDirLine(doc[i])}
YearLines(doc) == {j \in 1..Len(doc) : IsYearLine(doc[j])}
DirHeaders(doc) == LET ls == SelectSeq(doc, IsDirLine) IN [i \in 1..Len(ls) |-> ls[i][2]]
\* the directory section that line j is in
SectionOf(doc, j) == CHOOSE i \in DirLines(doc) : i < j /\ \A m \in (i + 1)..j : ~IsDirLine(doc[m])
\* the year headers of the directory section that starts at line i, in order
YearHeaders(doc, i) ==
  LET idx == SelectSeq([k \in 1..Len(doc) |-> k],
                       LAMBDA j : IsYearLine(doc[j]) /\ SectionOf(doc, j) = i)
  IN [n \in 1..Len(idx) |-> doc[idx[n]][2]]
\* the table rows of the year block that starts at line j
RowsOf(doc, j) ==
  {r \in (j + 1)..Len(doc) :
     IsRowLine(doc[r]) /\ \A m \in (j + 1)..r : ~IsYearLine(doc[m]) /\ ~IsDirLine(doc[m])}

\* s sorts before t: lexicographic by code point
RECURSIVE StrLess(_, _)
StrLess(s, t) ==
  IF t = <<>> THEN FALSE
  ELSE IF s = <<>> THEN TRUE
  ELSE IF s[1] # t[1] THEN Ord(s[1]) < Ord(t[1])
  ELSE StrLess(Tail(s), Tail(t))

AscendingNames(names) == \A i \in 1..(Len(names) - 1) : StrLess(names[i], names[i + 1])
AscendingYears(hs) ==
  \A i \in 1..(Len(hs) - 1) :
    /\ hs[i] # S_NoYearFolder
    /\ hs[i + 1] = S_NoYearFolder \/ IntOf(hs[i]) < IntOf(hs[i + 1])

Written == pc = "done" /\ io.writes = 1

\* C5: in both outputs the directory sections are in ascending lexical order
\* and, inside each, the year sections in strictly ascending numeric order
\* with "No Year Folder" after every numeric year, whatever the order of the
\* walk or of the listing.
C5_SectionsOrdered ==
  Written =>
    LET doc == disk[OutFile]
    IN /\ AscendingNames(DirHeaders(doc))
       /\ \A i \in DirLines(doc) : AscendingYears(YearHeaders(doc, i))

\* an inventory with two directories, one of them with two numeric years
\* and a "No Year Folder" section
C5_Witness ==
  /\ Written
  /\ prog = "inventory"
  /\ Len(DirHeaders(disk[OutFile])) = 2
  /\ \E i \in DirLines(disk[OutFile]) :
       YearHeaders(disk[OutFile], i) = <<StrOf(1999), StrOf(2010), S_NoYearFolder>>

\* the display name of an entry's year key
EntryYearName(e) == IF e[3] = None THEN S_NoYearFolder ELSE StrOf(e[3])
EntriesOf(d, y) == {i \in 1..Len(pdf_entries) :
                      EntryDir(pdf_entries[i]) = d /\ EntryYearName(pdf_entries[i]) = y}
RECURSIVE SumOver(_, _)
SumOver(S, doc) ==
  IF S = {} THEN 0
  ELSE LET j == CHOOSE x \in S : TRUE IN IntOf(doc[j][3]) + SumOver(S \ {j}, doc)

\* C6: the fragment has one directory block per distinct top-level
\* directory of the entries, inside it one year block per distinct year of
\* that directory, each with a badge and a number of rows equal to the
\* number of entries of its bucket, and the badges sum to the total
\* substituted for {TOTAL_FILES}.
C6_HtmlBlocksMatchEntries ==
  (Written /\ prog = "index") =>
    LET doc == disk[IndexOutput]
    IN /\ \A i, j \in DirLines(doc) : i # j => doc[i][2] # doc[j][2]
       /\ {doc[i][2] : i \in DirLines(doc)} = {EntryDir(e) : e \in Range(pdf_entries)}
       /\ \A i \in DirLines(doc) :
            LET hs == YearHeaders(doc, i)
            IN /\ \A a, b \in 1..Len(hs) : a # b => hs[a] # hs[b]
               /\ Range(hs) = {EntryYearName(e) :
                                 e \in {x \in Range(pdf_entries) : EntryDir(x) = doc[i][2]}}
       /\ \A j \in YearLines(doc) :
            LET n == Cardinality(EntriesOf(doc[SectionOf(doc, j)][2], doc[j][2]))
            IN IntOf(doc[j][3]) = n /\ Cardinality(RowsOf(doc, j)) = n
       /\ SumOver(YearLines(doc), doc) = IntOf(doc[1][2])
       /\ IntOf(doc[1][2]) = Len(pdf_entries)

\* an index whose only year block holds two files
C6_Witness ==
  /\ Written
  /\ prog = "index"
  /\ \E j \in YearLines(disk[IndexOutput]) :
       disk[IndexOutput][j][3] = <<"2">> /\ Cardinality(RowsOf(disk[IndexOutput], j)) = 2

\* the files under the root that pass the extension filter of the run
FilteredFiles == {f \in Range(scanned) : PassesFilter(f, args[2])}

\* C7: a second run with the same command line, on a world changed only by
\* the generator's own write, leaves the output file byte-identical to what
\* the first run left.
C7_SecondRunIdentical ==
  (runs >= 2 /\ pc = "done") => disk[OutFile] = prevOut

\* C8: when the root is not an existing directory the inventory run reports
\* an error and ends without a scan and without creating or writing
\* anything; when it exists the output is written exactly once, the reported
\* total is the number of files under the root that pass the extension
\* filter and the reported directory count is the number of their distinct
\* top-level path segments.
C8_InventoryReport ==
  prog = "inventory" =>
    /\ pc = "generate" => io = NoIo /\ disk[args[3]] = prevOut
    /\ (pc = "done" /\ args[1] # ".") =>
         /\ report = <<"error">>
         /\ io = NoIo
         /\ disk[args[3]] = prevOut
    /\ (pc = "done" /\ args[1] = ".") =>
         /\ io.scans = 1
         /\ io.writes = 1
         /\ disk[args[3]] # Absent
         /\ report = <<"success", Cardinality(FilteredFiles),
                       Cardinality({f[1] : f \in FilteredFiles})>>

\* a filtered run: three files under the root, two of them pass the filter
\* and share their top-level directory
C8_Witness ==
  /\ prog = "inventory"
  /\ pc = "done"
  /\ args[2] # {}
  /\ Len(scanned) = 3
  /\ report = <<"success", 2, 1>>

\* a sequence in the order of its keys, which are distinct
CanonFiles(files) ==
  Values(SortPairs([i \in 1..Len(files) |-> <<KeyOfParts(files[i]), files[i]>>]))
CanonEntries(entries) ==
  Values(SortPairs([i \in 1..Len(entries) |-> <<KeyOfStr(entries[i][1]), entries[i]>>]))
\* what the run writes when the walk or the listing delivers the same files
\* in the order of their paths
CanonOutput ==
  IF prog = "inventory"
  THEN MdContent(group_files(CanonFiles(scanned), ExtensionsSet(args[2])))
  ELSE FinalHtml(HtmlContent(HtmlGrouped(CanonEntries(pdf_entries))), Len(pdf_entries))
\* two entries whose paths differ only in letter case
CaseTie ==
  \E i, j \in 1..Len(pdf_entries) :
    i # j /\ Lower(pdf_entries[i][1]) = Lower(pdf_entries[j][1])

\* C10 as stated: the bytes written are the same for every order in which
\* the files are delivered, also when two paths of a bucket differ only in
\* letter case.
C10_OrderIndependent == Written => disk[OutFile] = CanonOutput

\* C10 as amended: the Markdown output is the same for every order of the
\* walk; the HTML output is the same for every order in which the entries
\* are delivered provided no two of their paths are equal when lower-cased.
C10_OrderIndependentWithoutCaseTie ==
  (Written /\ (prog = "inventory" \/ ~CaseTie)) => disk[OutFile] = CanonOutput

\* an inventory of two files whose paths differ only in letter case, met by
\* the walk in the order opposite to that of their paths
C10_Witness ==
  /\ Written
  /\ prog = "inventory"
  /\ Len(scanned) = 2
  /\ Lower(AsPosix(scanned[1])) = Lower(AsPosix(scanned[2]))
  /\ scanned # CanonFiles(scanned)
  /\ LET rows == SelectSeq(disk[OutFile], IsRowLine)
     IN Len(rows) = 2 /\ rows[1][3] = AsPosix(scanned[2]) /\ rows[2][3] = AsPosix(scanned[1])

====
